---- MODULE Spec2Model ----
(***************************************************************************)
(* Live tracking fan-out core of the bus-tracking backend:                 *)
(*   - app/realtime.py    ConnectionManager (connect, disconnect,          *)
(*                        broadcast) and the process-wide `manager`        *)
(*   - app/routers/ws.py  websocket_endpoint, the observer's handler       *)
(*   - app/routers/buses.py update_bus_location, the record request that   *)
(*                        persists a sample and then broadcasts it         *)
(*                                                                         *)
(* Scheduling: every handler is an `async def` on one asyncio event loop.  *)
(* Code between two awaits runs atomically; the database calls are         *)
(* synchronous.  The awaits are websocket.accept(), receive_text() and     *)
(* send_text(), so one action of the model is the code from one await to   *)
(* the next.                                                               *)
(*                                                                         *)
(* Optional values: None is the empty set {} and a present value v is {v}. *)
(***************************************************************************)
EXTENDS Integers, Sequences, FiniteSets, TLC

\* ---- bounds of the model ------------------------------------------------
NumSockets == 2          \* websocket connections that may ever be opened
MaxPublishes == 2        \* record requests that get as far as db.commit()
MaxClock == 1            \* the database clock runs over 0..MaxClock

WebSockets == 1..NumSockets
PubIds == 1..MaxPublishes

None == {}
Some(v) == {v}
TheValue(opt) == CHOOSE v \in opt : TRUE

\* ---- the external relational store (rows the handlers only read) --------
\* buses table: the ids for which db.query(Bus).filter(Bus.id == bus_id).first()
\* finds a row.  Bus 3 is an id no row has.
Buses == {1, 2, 4, 5}
BusIdInputs == {1, 2, 3}

\* bus_assignments table (start_time, end_time and is_active are independent
\* columns; nothing in the application derives one from the others).
\*   bus 1: assigned to driver 1 since time -3, open ended, flagged active
\*   bus 2: its only assignment ended at -1 and is flagged inactive
\*   bus 4: assigned to driver 2 since time -3, open ended, flagged active
\*   bus 5: the assignment to driver 1 ended at -1 and is still flagged active
\* Route 2 has no row in the routes table.
BusAssignments ==
    { [id |-> 1, bus_id |-> 1, driver_id |-> 1, route_id |-> 1, start_time |-> -3,
       end_time |-> None, is_active |-> TRUE],
      [id |-> 2, bus_id |-> 2, driver_id |-> 1, route_id |-> 1, start_time |-> -3,
       end_time |-> Some(-1), is_active |-> FALSE],
      [id |-> 3, bus_id |-> 4, driver_id |-> 2, route_id |-> 2, start_time |-> -3,
       end_time |-> None, is_active |-> TRUE],
      [id |-> 4, bus_id |-> 5, driver_id |-> 1, route_id |-> 1, start_time |-> -3,
       end_time |-> Some(-1), is_active |-> TRUE] }

\* routes and bus_stops tables: id -> name.
Routes == [id \in {1} |-> "Route 1"]
BusStops == [id \in {1, 2} |-> IF id = 1 THEN "Stop 1" ELSE "Stop 2"]

\* Users that pass get_current_driver (role == "driver").  driver_profile is
\* the Driver row of the user, None for a user registered with role "driver"
\* through POST /auth/register, which creates no Driver row.
DriverUsers ==
    { [username |-> "d1", role |-> "driver", driver_profile |-> Some(1)],
      [username |-> "d2", role |-> "driver", driver_profile |-> Some(2)],
      [username |-> "d0", role |-> "driver", driver_profile |-> None] }

\* ---- request bodies ------------------------------------------------------
\* Attributes of a BusLocationUpdate instance: the type FastAPI validates the
\* body of POST /buses/{bus_id}/tracking into.  It has no is_on_route.
BusLocationUpdate ==
    { [schema |-> "BusLocationUpdate", bus_id |-> 2, latitude |-> 11, longitude |-> 21,
       speed_kmh |-> Some(30), heading |-> Some(90), accuracy_meters |-> Some(5),
       crowd_level |-> Some("high"), current_stop_id |-> Some(1), next_stop_id |-> Some(2),
       eta_minutes |-> Some(5)] }

\* Attributes of a BusTrackingCreate instance: the sibling schema whose field
\* list is the one update_bus_location reads (it has is_on_route).  Python
\* does not enforce the annotation, so a direct caller can pass one.
BusTrackingCreate ==
    { [schema |-> "BusTrackingCreate", bus_id |-> 2, latitude |-> 11, longitude |-> 21,
       speed_kmh |-> Some(30), heading |-> Some(90), accuracy_meters |-> Some(5),
       crowd_level |-> Some("high"), current_stop_id |-> Some(1), next_stop_id |-> Some(2),
       eta_minutes |-> Some(5), is_on_route |-> FALSE] }

LocationInputs == BusLocationUpdate \cup BusTrackingCreate

\* getattr: reading an attribute the object does not have raises
\* AttributeError.
HasAttr(obj, name) == name \in DOMAIN obj

VARIABLES
    active_connections,  \* ConnectionManager.active_connections: Set[WebSocket]
    handler,             \* per websocket: where websocket_endpoint stands
    conn,                \* per websocket: the transport (peer side)
    inbox,               \* per websocket: frames the peer received, in order
    wire,                \* per websocket: frames written to a transport whose peer is not reading
    bus_tracking,        \* bus_tracking table: committed rows, in insertion order
    clock,               \* the database clock (func.now())
    pub,                 \* per record request that reached commit: its broadcast
    npub,                \* number of such requests so far
    last,                \* the last record request that failed before commit
    reply                \* the response of the last query request

vars == <<active_connections, handler, conn, inbox, wire, bus_tracking, clock, pub, npub, last,
          reply>>


\* ---- app/realtime.py ------------------------------------------------------

\* disconnect without the membership test: set.remove raises KeyError for
\* an observer that is not in the set.
disconnect_unguarded(conns, websocket) ==
    IF websocket \in conns
    THEN [conns |-> conns \ {websocket}, raised |-> FALSE]
    ELSE [conns |-> conns, raised |-> TRUE]

\* connect on a registry that keeps one entry per registration: registering
\* a member again adds a second handle (websocket + NumSockets) for it.
connect_append(conns, websocket) ==
    IF websocket \in conns THEN conns \cup {websocket + NumSockets}
    ELSE conns \cup {websocket}

\* ConnectionManager.connect(websocket) after the accept: set.add.
connect(conns, websocket) == conns \cup {websocket}

\* disconnect that flips the membership: removing an observer that is not in
\* the set puts it in.
disconnect_toggle(conns, websocket) ==
    IF websocket \in conns
    THEN [conns |-> conns \ {websocket}, raised |-> FALSE]
    ELSE [conns |-> conns \cup {websocket}, raised |-> FALSE]

\* ConnectionManager.disconnect(websocket) on the membership set conns.
\* The result is the new set and whether the call raised (set.remove raises
\* KeyError for a missing element; the membership test keeps it from that).
disconnect(conns, websocket) ==
    IF websocket \in conns
    THEN [conns |-> conns \ {websocket}, raised |-> FALSE]
    ELSE [conns |-> conns, raised |-> FALSE]

\* `for ws in to_remove: self.disconnect(ws)`; a raise ends the loop.
RECURSIVE prune(_, _)
prune(conns, to_remove) ==
    IF to_remove = <<>>
    THEN [conns |-> conns, raised |-> FALSE]
    ELSE LET first == disconnect(conns, Head(to_remove))
         IN  IF first.raised THEN first ELSE prune(first.conns, Tail(to_remove))

\* list(self.active_connections): the members in the set's iteration order,
\* which the language leaves unspecified.
Orderings(S) ==
    { s \in [1..Cardinality(S) -> S] : \A i, j \in DOMAIN s : i # j => s[i] # s[j] }

\* str(x) of a models.CrowdLevel member.  CrowdLevel is a (str, enum.Enum)
\* mixin, whose str() is "ClassName.MEMBER", not the value.
PyStrCrowdLevel(c) ==
    CASE c = "low" -> "CrowdLevel.LOW"
      [] c = "medium" -> "CrowdLevel.MEDIUM"
      [] c = "high" -> "CrowdLevel.HIGH"

\* json.dumps(value, default=str) of one Python value.  Python values are
\* tagged <<type, v>>; a datetime is not JSON serializable and goes through
\* default=str.
JsonValue(v) ==
    CASE v[1] = "NoneType" -> <<"null">>
      [] v[1] = "int" -> <<"number", v[2]>>
      [] v[1] = "float" -> <<"number", v[2]>>
      [] v[1] = "str" -> <<"string", v[2]>>
      [] v[1] = "datetime" -> <<"string", <<"str(datetime)", v[2]>>>>

\* json.dumps of a dict whose values are plain: the items in insertion order.
JsonObject(items) == [k \in DOMAIN items |-> <<items[k][1], JsonValue(items[k][2])>>]

\* data = json.dumps(message, default=str) for the message of
\* update_bus_location: {"type": ..., "data": {...}}.
json_dumps(message) ==
    << <<"type", JsonValue(<<"str", message.type>>)>>,
       <<"data", JsonObject(message.data)>> >>

PyOptInt(opt) == IF opt = None THEN <<"NoneType">> ELSE <<"int", TheValue(opt)>>

\* ---- app/routers/buses.py --------------------------------------------------

\* TrackingRow that files the row under the vehicle named in the body of the
\* request instead of the vehicle of the path.
TrackingRow_body(id, bus_id, location_data, now) ==
    [id |-> id,
     bus_id |-> location_data.bus_id,
     latitude |-> location_data.latitude,
     longitude |-> location_data.longitude,
     speed_kmh |-> location_data.speed_kmh,
     heading |-> location_data.heading,
     accuracy_meters |-> location_data.accuracy_meters,
     crowd_level |-> IF location_data.crowd_level = None THEN "medium"
                     ELSE TheValue(location_data.crowd_level),
     current_stop_id |-> location_data.current_stop_id,
     next_stop_id |-> location_data.next_stop_id,
     eta_minutes |-> location_data.eta_minutes,
     is_on_route |-> location_data.is_on_route,
     timestamp |-> now]

\* The BusTracking row built from the request (lines 212-224) as it reads
\* after db.commit() and db.refresh(): id and timestamp are set by the
\* database.
TrackingRow(id, bus_id, location_data, now) ==
    [id |-> id,
     bus_id |-> bus_id,
     latitude |-> location_data.latitude,
     longitude |-> location_data.longitude,
     speed_kmh |-> location_data.speed_kmh,
     heading |-> location_data.heading,
     accuracy_meters |-> location_data.accuracy_meters,
     crowd_level |-> IF location_data.crowd_level = None THEN "medium"
                     ELSE TheValue(location_data.crowd_level),
     current_stop_id |-> location_data.current_stop_id,
     next_stop_id |-> location_data.next_stop_id,
     eta_minutes |-> location_data.eta_minutes,
     is_on_route |-> location_data.is_on_route,
     timestamp |-> now]

\* The dict handed to manager.broadcast (lines 230-240).
LocationUpdateMessage(bus_id, tracking_data) ==
    [type |-> "location_update",
     data |-> << <<"bus_id", <<"int", bus_id>>>>,
                 <<"latitude", <<"float", tracking_data.latitude>>>>,
                 <<"longitude", <<"float", tracking_data.longitude>>>>,
                 <<"eta_minutes", PyOptInt(tracking_data.eta_minutes)>>,
                 <<"crowd_level", <<"str", PyStrCrowdLevel(tracking_data.crowd_level)>>>>,
                 <<"timestamp", <<"datetime", tracking_data.timestamp>>>> >>]

\* The active assignments of bus_id for the caller's driver profile
\* (lines 199-203).
ActiveAssignmentOf(bus_id, driver_id) ==
    { a \in BusAssignments : a.bus_id = bus_id /\ a.driver_id = driver_id /\ a.is_active }

\* A broadcast that has not been called.  i is the position in snapshot of
\* the send that is awaited, outcome how that send ends, sends the sends that
\* have ended.
NoPub ==
    [pc |-> "idle", bus_id |-> 0, location_data |-> <<>>, row |-> 0, data |-> <<>>,
     snapshot |-> <<>>, i |-> 0, outcome |-> "none", to_remove |-> <<>>, sends |-> <<>>]

\* The response of a record request that ended in an exception, with the
\* vehicle and the caller it was for.  An HTTPException gives its status
\* code and detail; any other exception is answered 500.
NoRequest == [bus_id |-> 0, username |-> "", status |-> "none", detail |-> ""]

\* No query has been answered yet.  A response is kept with the number of
\* rows bus_tracking had when the query read it.
NoReply == [query |-> "none", args |-> <<>>, status |-> "none", body |-> <<>>, rows |-> 0]

Failed(bus_id, user, status, detail) ==
    [bus_id |-> bus_id, username |-> user.username, status |-> status, detail |-> detail]

Init ==
    /\ active_connections = {}
    /\ handler = [w \in WebSockets |-> "init"]
    /\ conn = [w \in WebSockets |-> "open"]
    /\ inbox = [w \in WebSockets |-> <<>>]
    /\ wire = [w \in WebSockets |-> <<>>]
    /\ bus_tracking = <<>>
    /\ clock = 0
    /\ pub = [r \in PubIds |-> NoPub]
    /\ npub = 0
    /\ last = NoRequest
    /\ reply = NoReply

\* ---- app/realtime.py: broadcast ---------------------------------------------

\* connection.send_text(data) up to the point where the caller is suspended.
\* On a closed transport the call raises.  Otherwise the frame is written to
\* the transport, in the order of the calls: the peer gets it at once, unless
\* the peer is not reading (full: its buffers fill with this frame), and then
\* the frame waits and the call stays pending.
send_text(connection, frame, full) ==
    IF conn[connection] = "closed"
    THEN [outcome |-> "raised", inbox |-> inbox, wire |-> wire, conn |-> conn]
    ELSE IF conn[connection] = "stalled" \/ full
    THEN [outcome |-> "pending", inbox |-> inbox,
          wire |-> [wire EXCEPT ![connection] = Append(@, frame)],
          conn |-> [conn EXCEPT ![connection] = "stalled"]]
    ELSE [outcome |-> "sent", inbox |-> [inbox EXCEPT ![connection] = Append(@, frame)],
          wire |-> wire, conn |-> conn]

\* `await connection.send_text(data)` for the observer at p.i, p being the
\* state of broadcast r: the call is made and broadcast r is suspended in it.
AwaitSend(r, p, full) ==
    LET s == send_text(p.snapshot[p.i], <<r, p.data>>, full)
    IN  /\ pub' = [pub EXCEPT ![r] = [p EXCEPT !.outcome = s.outcome]]
        /\ inbox' = s.inbox
        /\ wire' = s.wire
        /\ conn' = s.conn

\* BroadcastStart that serializes the message before it looks at the
\* registry.
BroadcastStart_eager(bus_id, location_data, row, message, order) ==
    IF active_connections = {}
    THEN [NoPub EXCEPT !.pc = "returned", !.bus_id = bus_id,
                       !.location_data = location_data, !.row = row,
                       !.data = json_dumps(message)]
    ELSE [NoPub EXCEPT !.pc = "sending", !.bus_id = bus_id,
                       !.location_data = location_data, !.row = row,
                       !.data = json_dumps(message), !.snapshot = order, !.i = 1]

\* manager.broadcast(message) from its call to the first send, or to its
\* return when the registry is empty (lines 19-23).
BroadcastStart(bus_id, location_data, row, message, order) ==
    IF active_connections = {}
    THEN [NoPub EXCEPT !.pc = "returned", !.bus_id = bus_id,
                       !.location_data = location_data, !.row = row]
    ELSE [NoPub EXCEPT !.pc = "sending", !.bus_id = bus_id,
                       !.location_data = location_data, !.row = row,
                       !.data = json_dumps(message), !.snapshot = order, !.i = 1]

\* AfterSend without the try/except around the send: the exception of a
\* failed send leaves broadcast at once.
AfterSend_abort(r, outcome) ==
    LET p == pub[r]
        connection == p.snapshot[p.i]
        logged == [p EXCEPT !.sends = Append(p.sends, <<connection, outcome>>),
                            !.i = p.i + 1, !.outcome = "none"]
    IN  IF outcome = "raised"
        THEN /\ pub' = [pub EXCEPT ![r] = [logged EXCEPT !.pc = "raised"]]
             /\ UNCHANGED <<active_connections, inbox, wire, conn>>
        ELSE IF p.i < Len(p.snapshot)
        THEN /\ \E full \in BOOLEAN : AwaitSend(r, logged, full)
             /\ UNCHANGED active_connections
        ELSE /\ pub' = [pub EXCEPT ![r] = [logged EXCEPT !.pc = "returned"]]
             /\ UNCHANGED <<active_connections, inbox, wire, conn>>

\* AfterSend that sends once more to an observer whose send raised.
AfterSend_retry(r, outcome) ==
    LET p == pub[r]
        connection == p.snapshot[p.i]
        retried == p.sends # <<>> /\ p.sends[Len(p.sends)][1] = connection
        again == outcome = "raised" /\ ~retried
        marked == [p EXCEPT !.to_remove = IF outcome = "raised" /\ ~again
                                          THEN Append(p.to_remove, connection)
                                          ELSE p.to_remove,
                            !.sends = Append(p.sends, <<connection, outcome>>),
                            !.i = IF again THEN p.i ELSE p.i + 1,
                            !.outcome = "none"]
    IN  IF again \/ p.i < Len(p.snapshot)
        THEN /\ \E full \in BOOLEAN : AwaitSend(r, marked, full)
             /\ UNCHANGED active_connections
        ELSE LET pruned == prune(active_connections, marked.to_remove)
             IN  /\ pub' = [pub EXCEPT ![r] = [marked EXCEPT !.pc = "returned"]]
                 /\ active_connections' = pruned.conns
                 /\ UNCHANGED <<inbox, wire, conn>>

\* AfterSend that iterates the live set instead of a copy: the for
\* statement raises RuntimeError (set changed size during iteration) when
\* the membership has changed since the loop began.
AfterSend_live(r, outcome) ==
    LET p == pub[r]
        connection == p.snapshot[p.i]
        marked == [p EXCEPT !.to_remove = IF outcome = "raised"
                                          THEN Append(p.to_remove, connection)
                                          ELSE p.to_remove,
                            !.sends = Append(p.sends, <<connection, outcome>>),
                            !.i = p.i + 1,
                            !.outcome = "none"]
    IN  IF active_connections # {p.snapshot[k] : k \in DOMAIN p.snapshot}
        THEN /\ pub' = [pub EXCEPT ![r] = [marked EXCEPT !.pc = "raised"]]
             /\ UNCHANGED <<active_connections, inbox, wire, conn>>
        ELSE IF p.i < Len(p.snapshot)
        THEN /\ \E full \in BOOLEAN : AwaitSend(r, marked, full)
             /\ UNCHANGED active_connections
        ELSE LET pruned == prune(active_connections, marked.to_remove)
             IN  /\ pub' = [pub EXCEPT ![r] = [marked EXCEPT !.pc = "returned"]]
                 /\ active_connections' = pruned.conns
                 /\ UNCHANGED <<inbox, wire, conn>>

\* The loop once the awaited send has ended (lines 23-29): the except clause
\* AfterSend with the disconnect in the except clause: the observer of a
\* send that raised is removed at once, in the middle of the loop.
AfterSend_eager(r, outcome) ==
    LET p == pub[r]
        connection == p.snapshot[p.i]
        marked == [p EXCEPT !.to_remove = IF outcome = "raised"
                                          THEN Append(p.to_remove, connection)
                                          ELSE p.to_remove,
                            !.sends = Append(p.sends, <<connection, outcome>>),
                            !.i = p.i + 1,
                            !.outcome = "none"]
        removed == IF outcome = "raised" THEN disconnect(active_connections, connection).conns
                   ELSE active_connections
    IN  IF p.i < Len(p.snapshot)
        THEN /\ \E full \in BOOLEAN : AwaitSend(r, marked, full)
             /\ active_connections' = removed
        ELSE /\ pub' = [pub EXCEPT ![r] = [marked EXCEPT !.pc = "returned"]]
             /\ active_connections' = removed
             /\ UNCHANGED <<inbox, wire, conn>>

\* AfterSend whose prune loop runs over the whole snapshot when a send has
\* raised, instead of over to_remove.
AfterSend_purge(r, outcome) ==
    LET p == pub[r]
        connection == p.snapshot[p.i]
        marked == [p EXCEPT !.to_remove = IF outcome = "raised"
                                          THEN Append(p.to_remove, connection)
                                          ELSE p.to_remove,
                            !.sends = Append(p.sends, <<connection, outcome>>),
                            !.i = p.i + 1,
                            !.outcome = "none"]
    IN  IF p.i < Len(p.snapshot)
        THEN /\ \E full \in BOOLEAN : AwaitSend(r, marked, full)
             /\ UNCHANGED active_connections
        ELSE LET pruned == prune(active_connections,
                                 IF marked.to_remove = <<>> THEN <<>> ELSE p.snapshot)
             IN  /\ pub' = [pub EXCEPT ![r] =
                             [marked EXCEPT !.pc = IF pruned.raised THEN "raised"
                                                   ELSE "returned"]]
                 /\ active_connections' = pruned.conns
                 /\ UNCHANGED <<inbox, wire, conn>>

\* marks the observer of a send that raised, the next observer's send is
\* called, and after the last observer the prune loop runs and broadcast
\* returns, with no await in between.
AfterSend(r, outcome) ==
    LET p == pub[r]
        connection == p.snapshot[p.i]
        marked == [p EXCEPT !.to_remove = IF outcome = "raised"
                                          THEN Append(p.to_remove, connection)
                                          ELSE p.to_remove,
                            !.sends = Append(p.sends, <<connection, outcome>>),
                            !.i = p.i + 1,
                            !.outcome = "none"]
    IN  IF p.i < Len(p.snapshot)
        THEN /\ \E full \in BOOLEAN : AwaitSend(r, marked, full)
             /\ UNCHANGED active_connections
        ELSE LET pruned == prune(active_connections, marked.to_remove)
             IN  /\ pub' = [pub EXCEPT ![r] =
                             [marked EXCEPT !.pc = IF pruned.raised THEN "raised"
                                                   ELSE "returned"]]
                 /\ active_connections' = pruned.conns
                 /\ UNCHANGED <<inbox, wire, conn>>

\* The awaited send_text returns.
SendReturns(r) ==
    /\ pub[r].pc = "sending"
    /\ pub[r].outcome = "sent"
    /\ AfterSend(r, "sent")
    /\ UNCHANGED <<handler, bus_tracking, clock, npub, last, reply>>

\* The awaited send_text raises.
SendRaises(r) ==
    /\ pub[r].pc = "sending"
    /\ pub[r].outcome = "raised"
    /\ AfterSend(r, "raised")
    /\ UNCHANGED <<handler, bus_tracking, clock, npub, last, reply>>

\* ---- app/routers/buses.py: update_bus_location -----------------------------

\* CommitAndBroadcast with the broadcast called before the commit: the event
\* is out when the commit raises.
CommitAndBroadcast_early(bus_id, location_data, current_user, committed) ==
    \E now \in clock..MaxClock, order \in Orderings(active_connections) :
      LET tracking_data == TrackingRow(Len(bus_tracking) + 1, bus_id, location_data, now)
          r == npub + 1
          started == BroadcastStart(bus_id, location_data, tracking_data.id,
                         LocationUpdateMessage(bus_id, tracking_data), order)
      IN  /\ npub < MaxPublishes
          /\ clock' = now
          /\ bus_tracking' = IF committed THEN Append(bus_tracking, tracking_data)
                             ELSE bus_tracking
          /\ npub' = r
          /\ IF started.pc = "sending"
             THEN \E full \in BOOLEAN : AwaitSend(r, started, full)
             ELSE /\ pub' = [pub EXCEPT ![r] = started]
                  /\ UNCHANGED <<inbox, wire, conn>>
          /\ last' = IF committed THEN last
                     ELSE Failed(bus_id, current_user, "500", "db.commit() raised")

\* Lines 211-242 of update_bus_location, from db.add to the first await of
\* the broadcast: committed is whether db.commit() succeeds, now the database
\* clock at the insert, order the iteration order of the registry.  A commit
\* that raises ends the request before manager.broadcast is called.
CommitAndBroadcast(bus_id, location_data, current_user, committed) ==
    IF ~committed
    THEN /\ last' = Failed(bus_id, current_user, "500", "db.commit() raised")
         /\ UNCHANGED <<bus_tracking, clock, pub, npub, inbox, wire, conn>>
    ELSE \E now \in clock..MaxClock, order \in Orderings(active_connections) :
           LET tracking_data == TrackingRow(Len(bus_tracking) + 1, bus_id, location_data, now)
               r == npub + 1
               started == BroadcastStart(bus_id, location_data, tracking_data.id,
                              LocationUpdateMessage(bus_id, tracking_data), order)
           IN  /\ npub < MaxPublishes
               /\ clock' = now
               /\ bus_tracking' = Append(bus_tracking, tracking_data)
               /\ npub' = r
               /\ IF started.pc = "sending"
                  THEN \E full \in BOOLEAN : AwaitSend(r, started, full)
                  ELSE /\ pub' = [pub EXCEPT ![r] = started]
                       /\ UNCHANGED <<inbox, wire, conn>>
               /\ UNCHANGED last

\* POST /buses/{bus_id}/tracking: update_bus_location from its start to the
\* first await of the broadcast, or to the exception that ends it.
update_bus_location(bus_id, location_data, current_user) ==
    /\ UNCHANGED <<active_connections, handler, reply>>
    /\ IF bus_id \notin Buses
       THEN /\ last' = Failed(bus_id, current_user, "404", "Bus not found")
            /\ UNCHANGED <<bus_tracking, clock, pub, npub, inbox, wire, conn>>
       ELSE IF current_user.driver_profile = None
       THEN \* current_user.driver_profile.id on None (line 201)
            /\ last' = Failed(bus_id, current_user, "500",
                               "AttributeError: 'NoneType' object has no attribute 'id'")
            /\ UNCHANGED <<bus_tracking, clock, pub, npub, inbox, wire, conn>>
       ELSE IF ActiveAssignmentOf(bus_id, TheValue(current_user.driver_profile)) = {}
       THEN /\ last' = Failed(bus_id, current_user, "403", "You are not assigned to this bus")
            /\ UNCHANGED <<bus_tracking, clock, pub, npub, inbox, wire, conn>>
       ELSE IF ~HasAttr(location_data, "is_on_route")
       THEN \* location_data.is_on_route (line 223)
            /\ last' = Failed(bus_id, current_user, "500",
                               "AttributeError: object has no attribute 'is_on_route'")
            /\ UNCHANGED <<bus_tracking, clock, pub, npub, inbox, wire, conn>>
       ELSE \E committed \in BOOLEAN :
              CommitAndBroadcast(bus_id, location_data, current_user, committed)

RecordRequest ==
    \E bus_id \in BusIdInputs, location_data \in LocationInputs, current_user \in DriverUsers :
        update_bus_location(bus_id, location_data, current_user)

\* ---- app/routers/ws.py: websocket_endpoint ---------------------------------

\* Connect under a registry lock that a publish holds from its snapshot to
\* its return: the registration waits while any publish is in its loop.
Connect_locked(w) ==
    /\ \A r \in PubIds : pub[r].pc # "sending"
    /\ handler[w] = "init"
    /\ conn[w] # "closed"
    /\ active_connections' = connect(active_connections, w)
    /\ handler' = [handler EXCEPT ![w] = "receiving"]
    /\ UNCHANGED <<conn, inbox, wire, bus_tracking, clock, pub, npub, last, reply>>

\* await manager.connect(websocket): accept, then add to the set.  On a
\* transport the peer has already closed, accept either raises, which ends
\* the handler before the add, or goes through unnoticed.
Connect(w) ==
    /\ handler[w] = "init"
    /\ \/ /\ conn[w] # "closed"
          /\ active_connections' = connect(active_connections, w)
          /\ handler' = [handler EXCEPT ![w] = "receiving"]
       \/ /\ conn[w] = "closed"
          /\ \E accepted \in BOOLEAN :
               IF accepted
               THEN /\ active_connections' = connect(active_connections, w)
                    /\ handler' = [handler EXCEPT ![w] = "receiving"]
               ELSE /\ handler' = [handler EXCEPT ![w] = "accept_raised"]
                    /\ UNCHANGED active_connections
    /\ UNCHANGED <<conn, inbox, wire, bus_tracking, clock, pub, npub, last, reply>>

\* await websocket.receive_text() raises WebSocketDisconnect: the handler
\* calls manager.disconnect(websocket) and returns (lines 15-16).
ReceiveDisconnect(w) ==
    /\ handler[w] = "receiving"
    /\ conn[w] = "closed"
    /\ LET d == disconnect(active_connections, w)
       IN  /\ active_connections' = d.conns
           /\ handler' = [handler EXCEPT ![w] = IF d.raised THEN "disconnect_raised"
                                                ELSE "returned"]
    /\ UNCHANGED <<conn, inbox, wire, bus_tracking, clock, pub, npub, last, reply>>

\* ---- the peers and the transport ---------------------------------------------

\* The sends that broadcasts await on the transport of w end with outcome.
Pending(w) == { r \in PubIds : /\ pub[r].pc = "sending"
                               /\ pub[r].outcome = "pending"
                               /\ pub[r].snapshot[pub[r].i] = w }

EndPending(w, outcome) ==
    [r \in PubIds |-> IF r \in Pending(w) THEN [pub[r] EXCEPT !.outcome = outcome] ELSE pub[r]]

\* The peer closes its connection, or the network drops it.  Frames that
\* wait on the transport are lost and the sends pending on it raise.
PeerCloses(w) ==
    /\ conn[w] \in {"open", "stalled"}
    /\ conn' = [conn EXCEPT ![w] = "closed"]
    /\ wire' = [wire EXCEPT ![w] = <<>>]
    /\ pub' = EndPending(w, "raised")
    /\ UNCHANGED <<active_connections, handler, inbox, bus_tracking, clock, npub, last, reply>>

\* The peer sends a frame that is not text: receive_text raises KeyError,
\* which websocket_endpoint does not catch.  The handler ends without
\* disconnect and the server closes the transport.
ReceiveRaises(w) ==
    /\ handler[w] = "receiving"
    /\ conn[w] \in {"open", "stalled"}
    /\ handler' = [handler EXCEPT ![w] = "receive_raised"]
    /\ conn' = [conn EXCEPT ![w] = "closed"]
    /\ wire' = [wire EXCEPT ![w] = <<>>]
    /\ pub' = EndPending(w, "raised")
    /\ UNCHANGED <<active_connections, inbox, bus_tracking, clock, npub, last, reply>>

\* The peer reads again: it gets the waiting frames in the order they were
\* written, and the sends pending on its transport return.
PeerResumes(w) ==
    /\ conn[w] = "stalled"
    /\ conn' = [conn EXCEPT ![w] = "open"]
    /\ inbox' = [inbox EXCEPT ![w] = @ \o wire[w]]
    /\ wire' = [wire EXCEPT ![w] = <<>>]
    /\ pub' = EndPending(w, "sent")
    /\ UNCHANGED <<active_connections, handler, bus_tracking, clock, npub, last, reply>>

Next ==
    \/ RecordRequest
    \/ \E r \in PubIds : SendReturns(r)
    \/ \E r \in PubIds : SendRaises(r)
    \/ \E w \in WebSockets : Connect(w)
    \/ \E w \in WebSockets : ReceiveDisconnect(w)
    \/ \E w \in WebSockets : ReceiveRaises(w)
    \/ \E w \in WebSockets : PeerCloses(w)
    \/ \E w \in WebSockets : PeerResumes(w)

Spec == Init /\ [][Next]_vars

\* The event loop runs every task that can run: a send that has ended is
\* resumed, and a handler whose receive has raised handles it.  Nothing
\* obliges a peer to read or to close.
FairSpec ==
    /\ Spec
    /\ \A r \in PubIds : WF_vars(SendReturns(r)) /\ WF_vars(SendRaises(r))
    /\ \A w \in WebSockets : WF_vars(ReceiveDisconnect(w))


\* ---- app/routers/buses.py: the queries -------------------------------------

\* Time is counted in hours.  The database stamps a row with the time of its
\* insert without a fraction (func.now() is CURRENT_TIMESTAMP), so that rows
\* inserted close to one another carry the same timestamp; a request reads
\* utcnow at a whole hour.

\* Coordinates are in hundredths of a degree: latitude 11 is 0.11 degrees.

\* The floating-point numbers of calculate_distance are modelled in fixed
\* point with 24 decimal places.  A number x >= 0 is the sequence of the Limbs
\* digits of floor(x * 10^24) to the base Base, the least significant first:
\* FracLimbs digits stand after the point.
Base == 10000
FracLimbs == 6
Limbs == 8

Zero == [i \in 1..Limbs |-> 0]
One == [i \in 1..Limbs |-> IF i = FracLimbs + 1 THEN 1 ELSE 0]
Ulp == [i \in 1..Limbs |-> IF i = 1 THEN 1 ELSE 0]

\* The digits of a number given by columns that may exceed a digit or be
\* negative: each column passes its carry (or borrow) on to the next.
RECURSIVE Carry(_, _)
Carry(cols, carry) ==
    IF cols = <<>> THEN <<>>
    ELSE LET v == Head(cols) + carry
         IN  <<v % Base>> \o Carry(Tail(cols), v \div Base)

\* a + b, a - b (for a >= b) and a < b.
FixAdd(a, b) == Carry([i \in DOMAIN a |-> a[i] + b[i]], 0)
FixSub(a, b) == Carry([i \in DOMAIN a |-> a[i] - b[i]], 0)
FixLess(a, b) ==
    \E i \in DOMAIN a : a[i] < b[i] /\ \A j \in (i + 1)..Len(a) : a[j] = b[j]

\* a - b where a >= b, else 0.
Monus(a, b) == IF FixLess(a, b) THEN Zero ELSE FixSub(a, b)

\* The sum of the products a[i] * b[k + 1 - i] of weight Base^(k - 1).
RECURSIVE Column(_, _, _, _)
Column(a, b, k, i) ==
    IF i > Len(a) \/ i > k THEN 0
    ELSE a[i] * b[k + 1 - i] + Column(a, b, k, i + 1)

\* The digits of the exact product of the integers a and b stand for.
Product(a, b) ==
    Carry([k \in 1..(Len(a) + Len(b)) |->
             IF k = Len(a) + Len(b) THEN 0
             ELSE Column(a, b, k, IF k > Len(b) THEN k + 1 - Len(b) ELSE 1)], 0)

\* a * b of two numbers, cut after 24 places; a * n and a / n for an integer
\* 0 < n < 200000.
FixMul(a, b) == SubSeq(Product(a, b), FracLimbs + 1, FracLimbs + Limbs)
FixMulSmall(a, n) == Carry([i \in DOMAIN a |-> a[i] * n], 0)

RECURSIVE DivFrom(_, _, _, _)
DivFrom(a, n, i, rem) ==
    IF i = 0 THEN <<>>
    ELSE LET v == rem * Base + a[i]
         IN  Append(DivFrom(a, n, i - 1, v % n), v \div n)

FixDivSmall(a, n) == DivFrom(a, n, Len(a), 0)

\* pi / 18000 = 0.000174532925199432957692...: the radians of a hundredth of
\* a degree.
RadiansPerUnit == <<7692, 3295, 1994, 2925, 7453, 1, 0, 0>>

\* math.radians of an angle of 0 <= cdeg <= 18000 hundredths of a degree.
Radians(cdeg) == FixMulSmall(RadiansPerUnit, cdeg)

\* The Taylor series of sine and cosine at 0 <= x <= 2: term is x^(k-1)/(k-1)!,
\* and the terms are added up by sign until they vanish.
RECURSIVE Taylor(_, _, _, _)
Taylor(x, term, k, acc) ==
    LET next == FixDivSmall(FixMul(term, x), k)
    IN  IF next = Zero THEN acc
        ELSE Taylor(x, next, k + 1,
                    CASE k % 4 = 1 -> [acc EXCEPT !.sp = FixAdd(@, next)]
                      [] k % 4 = 2 -> [acc EXCEPT !.cn = FixAdd(@, next)]
                      [] k % 4 = 3 -> [acc EXCEPT !.sn = FixAdd(@, next)]
                      [] k % 4 = 0 -> [acc EXCEPT !.cp = FixAdd(@, next)])

SinCos(x) ==
    LET t == Taylor(x, One, 1, [sp |-> Zero, sn |-> Zero, cp |-> One, cn |-> Zero])
    IN  [sin |-> Monus(t.sp, t.sn), cos |-> Monus(t.cp, t.cn)]

\* math.sin(x) for 0 <= x <= pi/2 and math.cos(x) for 0 <= x <= pi/2.
Sin(x) == SinCos(x).sin
Cos(x) == SinCos(x).cos

\* a <= root * root, compared on the exact product.
SquareExceeds(root, a) ==
    FixLess([i \in 1..(2 * Limbs) |->
               IF i <= FracLimbs \/ i > FracLimbs + Limbs THEN 0
               ELSE a[i - FracLimbs]],
            Product(root, root))

\* The greatest digit in lo..(hi - 1) at place i of root that keeps the
\* square of root at most a.
RECURSIVE SqrtDigit(_, _, _, _, _)
SqrtDigit(a, root, i, lo, hi) ==
    IF lo + 1 = hi THEN lo
    ELSE LET mid == (lo + hi) \div 2
         IN  IF SquareExceeds([root EXCEPT ![i] = mid], a)
             THEN SqrtDigit(a, root, i, lo, mid)
             ELSE SqrtDigit(a, root, i, mid, hi)

\* The digits of the root from place i down.
RECURSIVE SqrtFrom(_, _, _)
SqrtFrom(a, root, i) ==
    IF i = 0 THEN root
    ELSE SqrtFrom(a, [root EXCEPT ![i] = SqrtDigit(a, root, i, 0, Base)], i - 1)

\* math.sqrt(a) for 0 <= a <= 1: the greatest number whose square is at most
\* a.
Sqrt(a) == SqrtFrom(a, Zero, FracLimbs + 1)

\* The steps math.atan2 is given to reach the last place.
AtanSteps == 5

\* math.atan2(y, x) for y, x >= 0 with y^2 + x^2 = 1: the angle theta with
\* sin(theta) = y and cos(theta) = x.  With d = sin(theta' - theta) =
\* y * cos(theta) - x * sin(theta) for the angle theta' sought, each step
\* moves theta by d + d^3/6, which is asin(d) up to the order of d^5.
RECURSIVE Atan2From(_, _, _, _)
Atan2From(y, x, theta, n) ==
    IF n = 0 THEN theta
    ELSE LET sc == SinCos(theta)
             p == FixMul(y, sc.cos)
             q == FixMul(x, sc.sin)
             d == IF FixLess(p, q) THEN FixSub(q, p) ELSE FixSub(p, q)
             step == FixAdd(d, FixDivSmall(FixMul(FixMul(d, d), d), 6))
         IN  IF d = Zero THEN theta
             ELSE IF FixLess(p, q) THEN Atan2From(y, x, Monus(theta, step), n - 1)
             ELSE Atan2From(y, x, FixAdd(theta, step), n - 1)

Atan2(y, x) == Atan2From(y, x, Zero, AtanSteps)

\* An angle in hundredths of a degree brought to 0..18000: sin^2(x/2) and
\* cos(x) have the period of 360 degrees and are even.
Fold(cdeg) == LET m == cdeg % 36000 IN IF m > 18000 THEN 36000 - m ELSE m

\* The arithmetic of the code is that of doubles, and the functions of math
\* are those of the C library of the build: a result is the real one up to
\* its rounding.  A quantity of calculate_distance is therefore a pair of
\* bounds, lo <= hi, between which its double lies.

\* 2^-53, the greatest relative error of one rounding, and 100 units of the
\* last place, which cover what the series above leave out.
Roundoff == <<2303, 1102, 1, 0, 0, 0, 0, 0>>
Slack == [i \in 1..Limbs |-> IF i = 1 THEN 100 ELSE 0]

\* 4 * 2^-53 * pi / 180: the error in radians of an angle for each degree of
\* its operands.  A coordinate x is the double next to it (|x| * 2^-53), the
\* difference of two is rounded, and math.radians rounds its product with
\* the double next to pi / 180.
AngleError == <<819, 775, 0, 0, 0, 0, 0, 0>>

\* The degrees of a coordinate in hundredths of a degree, rounded up.
Mag(cdeg) == (IF cdeg < 0 THEN -cdeg ELSE cdeg) \div 100 + 1

\* The integer 0 <= n < 10^8 as a number.
IntFix(n) ==
    [i \in 1..Limbs |->
        IF i = FracLimbs + 1 THEN n % Base
        ELSE IF i = FracLimbs + 2 THEN n \div Base ELSE 0]

\* The error of the angles made of the coordinates x1 and x2.
AngleErrorOf(x1, x2) == FixAdd(FixMul(IntFix(Mag(x1) + Mag(x2)), AngleError), Slack)

\* a * b rounded up, and a number not above 1.
Up(a, b) == IF a = Zero \/ b = Zero THEN Zero ELSE FixAdd(FixMul(a, b), Ulp)
AtMostOne(a) == IF FixLess(One, a) THEN One ELSE a

\* |math.sin(d/2)| for d = math.radians(x2 - x1): 0 when the coordinates are
\* the same double, else the sine of half the difference up to the error err
\* of the angle and the rounding of math.sin.
SinHalf(x1, x2, err) ==
    IF x1 = x2 THEN [lo |-> Zero, hi |-> Zero]
    ELSE LET sin == Sin(FixDivSmall(Radians(Fold((x2 % 36000) - (x1 % 36000))), 2))
             e == FixAdd(err, Up(FixMulSmall(Roundoff, 2), sin))
         IN  [lo |-> Monus(sin, e), hi |-> AtMostOne(FixAdd(sin, e))]

\* math.cos(math.radians(cdeg / 100)): its sign and the bounds of its
\* magnitude.  The sign is not known where the magnitude is within the error
\* of 0; at 90 degrees the double of math.radians is below pi / 2, and the
\* cosine is positive.
CosDeg(cdeg, err) ==
    LET m == Fold(cdeg)
        neg == m > 9000
        cos == IF neg THEN Cos(Radians(18000 - m)) ELSE Cos(Radians(m))
        e == FixAdd(err, Up(FixMulSmall(Roundoff, 2), cos))
    IN  IF cdeg = 9000 \/ cdeg = -9000
        THEN [neg |-> FALSE, unsure |-> FALSE, lo |-> Zero, hi |-> e]
        ELSE [neg |-> neg, unsure |-> ~FixLess(e, cos),
              lo |-> Monus(cos, e), hi |-> AtMostOne(FixAdd(cos, e))]

\* math.sqrt raises ValueError ("math domain error") for a negative argument.
ValueError == [raised |-> TRUE, low |-> Zero, high |-> Zero]

\* c / 2 = math.atan2(math.sqrt(a), math.sqrt(1 - a)) for 0 <= a <= 1.
HalfAngle(a) == Atan2(Sqrt(a), Sqrt(FixSub(One, a)))

\* calculate_distance(lat1, lon1, lat2, lon2): the Haversine formula with
\* R = 6371 km, and the outcomes the call can have: a distance in kilometres
\* between low and high, or ValueError.  The real a lies in [0, 1] for all
\* arguments; the double a can lie below 0 where the two terms of a cancel
\* (the cosines have different signs: a latitude beyond 90 degrees) and
\* above 1 where the points are antipodal, and then math.sqrt(a) or
\* math.sqrt(1 - a) raises.  The rounding of 1 - a moves the angle as a
\* rounding of a does.
calculate_distance(lat1, lon1, lat2, lon2) ==
    LET R == 6371
        err_lat == AngleErrorOf(lat1, lat2)
        err_lon == AngleErrorOf(lon1, lon2)
        sin_dlat == SinHalf(lat1, lat2, err_lat)
        sin_dlon == SinHalf(lon1, lon2, err_lon)
        cos1 == CosDeg(lat1, err_lat)
        cos2 == CosDeg(lat2, err_lat)
        h == [lo |-> FixMul(sin_dlat.lo, sin_dlat.lo), hi |-> Up(sin_dlat.hi, sin_dlat.hi)]
        t == [lo |-> FixMul(FixMul(cos1.lo, cos2.lo), FixMul(sin_dlon.lo, sin_dlon.lo)),
              hi |-> Up(Up(cos1.hi, cos2.hi), Up(sin_dlon.hi, sin_dlon.hi))]
        unsure == cos1.unsure \/ cos2.unsure
        minus == unsure \/ cos1.neg # cos2.neg
        below == minus /\ FixLess(h.lo, t.hi)
        sum == [lo |-> IF minus THEN Monus(h.lo, t.hi) ELSE FixAdd(h.lo, t.lo),
                hi |-> IF unsure \/ ~minus THEN FixAdd(h.hi, t.hi) ELSE Monus(h.hi, t.lo)]
        a == [lo |-> Monus(sum.lo, Up(FixMulSmall(Roundoff, 8), sum.lo)),
              hi |-> FixAdd(sum.hi, Up(FixMulSmall(Roundoff, 8), sum.hi))]
        above == FixLess(One, a.hi)
        c == [lo |-> FixMulSmall(Monus(HalfAngle(AtMostOne(a.lo)), Slack), 2),
              hi |-> IF a.hi = Zero THEN Zero
                     ELSE FixMulSmall(FixAdd(HalfAngle(AtMostOne(a.hi)), Slack), 2)]
        distance == [lo |-> FixMulSmall(c.lo, R), hi |-> FixMulSmall(c.hi, R)]
    IN  { [raised |-> FALSE,
           low |-> Monus(distance.lo, Up(FixMulSmall(Roundoff, 4), distance.lo)),
           high |-> FixAdd(distance.hi, Up(FixMulSmall(Roundoff, 4), distance.hi))] }
            \cup (IF below \/ above THEN {ValueError} ELSE {})

\* A radius given in whole kilometres.
Km(radius_km) == [i \in 1..Limbs |-> IF i = FracLimbs + 1 THEN radius_km ELSE 0]

\* The ids of the rows of bus_tracking with BusTracking.bus_id == bus_id.
RowsOf(bus_id) == { k \in DOMAIN bus_tracking : bus_tracking[k].bus_id = bus_id }

\* The rows ids in the order of .order_by(BusTracking.timestamp.asc()).
OrderByTimestampAsc(ids) ==
    { s \in Orderings(ids) :
        \A i, j \in DOMAIN s :
            i < j => bus_tracking[s[i]].timestamp <= bus_tracking[s[j]].timestamp }

\* .order_by(BusTracking.timestamp.desc()) over the rows ids: the order the
\* database answers in.  The statement names no second key.  The database of
\* DATABASE_URL (config.py:9), SQLite, answers it by walking the index on
\* timestamp (models.py:203), the one index of bus_tracking the statement can
\* use, from its end: the rows come with falling timestamp and, where the
\* timestamp is the same, with falling id, the last inserted first.  The plan
\* is the same for every execution of the statement.
OrderByTimestampDesc(ids) ==
    { s \in Orderings(ids) :
        \A i, j \in DOMAIN s :
            i < j => \/ bus_tracking[s[i]].timestamp > bus_tracking[s[j]].timestamp
                     \/ /\ bus_tracking[s[i]].timestamp = bus_tracking[s[j]].timestamp
                        /\ s[i] > s[j] }

\* The latest query answering any of the rows that share the greatest
\* timestamp of the vehicle.
latest_tracking_any(bus_id) ==
    IF RowsOf(bus_id) = {} THEN {None}
    ELSE { Some(bus_tracking[j]) :
             j \in { k \in RowsOf(bus_id) :
                        \A i \in RowsOf(bus_id) :
                            bus_tracking[i].timestamp <= bus_tracking[k].timestamp } }

\* db.query(BusTracking).filter(BusTracking.bus_id == bus_id)
\*   .order_by(BusTracking.timestamp.desc()).first(): the row the query
\* answers, None when the vehicle has no row.
latest_tracking(bus_id) ==
    IF RowsOf(bus_id) = {} THEN {None}
    ELSE { Some(bus_tracking[s[1]]) : s \in OrderByTimestampDesc(RowsOf(bus_id)) }

\* The longest window the history query accepts, in hours (le=168).
MaxHours == 168

\* get_bus_tracking_history without the filter on the timestamp.
get_bus_tracking_history_unbounded(bus_id, hours, utcnow) ==
    IF hours \notin 1..MaxHours
    THEN { [query |-> "history", args |-> <<bus_id, hours>>, status |-> "422",
            body |-> <<"hours">>, rows |-> Len(bus_tracking)] }
    ELSE IF bus_id \notin Buses
    THEN { [query |-> "history", args |-> <<bus_id, hours>>, status |-> "404",
            body |-> <<"Bus not found">>, rows |-> Len(bus_tracking)] }
    ELSE { [query |-> "history", args |-> <<bus_id, hours>>, status |-> "200",
            body |-> [k \in DOMAIN s |-> bus_tracking[s[k]]],
            rows |-> Len(bus_tracking)] :
           s \in OrderByTimestampDesc(RowsOf(bus_id)) }

\* GET /buses/{bus_id}/tracking: the responses get_bus_tracking_history may
\* give at time utcnow.  hours is declared Query(24, ge=1, le=168): a request
\* with hours outside 1..168 is answered 422, naming the parameter, before the
\* body of the handler runs.
\* The filter BusTracking.timestamp >= start_time is evaluated by the database
\* of DATABASE_URL (config.py:9), SQLite, on texts: the column holds the
\* CURRENT_TIMESTAMP of the insert, 'YYYY-MM-DD HH:MM:SS', and start_time is
\* bound as 'YYYY-MM-DD HH:MM:SS.ffffff'.  The stamp of a row stamped at
\* start_time is a proper prefix of the bound and sorts before it: the rows
\* the filter keeps are those stamped after start_time.
get_bus_tracking_history(bus_id, hours, utcnow) ==
    IF hours \notin 1..MaxHours
    THEN { [query |-> "history", args |-> <<bus_id, hours>>, status |-> "422",
            body |-> <<"hours">>, rows |-> Len(bus_tracking)] }
    ELSE IF bus_id \notin Buses
    THEN { [query |-> "history", args |-> <<bus_id, hours>>, status |-> "404",
            body |-> <<"Bus not found">>, rows |-> Len(bus_tracking)] }
    ELSE LET start_time == utcnow - hours
             ids == { k \in RowsOf(bus_id) : bus_tracking[k].timestamp > start_time }
         IN  { [query |-> "history", args |-> <<bus_id, hours>>, status |-> "200",
                body |-> [k \in DOMAIN s |-> bus_tracking[s[k]]],
                rows |-> Len(bus_tracking)] :
               s \in OrderByTimestampDesc(ids) }

\* The assignments query without the filter on is_active.
ActiveAssignments_all == BusAssignments

\* The rows with BusAssignment.is_active == True.
ActiveAssignments == { a \in BusAssignments : a.is_active }

\* latest_tracking.next_stop.name if latest_tracking.next_stop else None.
NextStopName(tracking) ==
    IF tracking.next_stop_id # None /\ TheValue(tracking.next_stop_id) \in DOMAIN BusStops
    THEN Some(BusStops[TheValue(tracking.next_stop_id)])
    ELSE None

\* route.name if route else "Unknown Route".
RouteName(assignment) ==
    IF assignment.route_id \in DOMAIN Routes THEN Routes[assignment.route_id]
    ELSE "Unknown Route"

\* BusStatusSummary that shows a vehicle without a row as updated at the time
\* of the query.
BusStatusSummary_now(assignment, latest) ==
    IF latest = None
    THEN [bus_id |-> assignment.bus_id,
          route_name |-> RouteName(assignment),
          current_location |-> None,
          next_stop |-> None,
          eta_minutes |-> None,
          crowd_level |-> "medium",
          is_on_route |-> TRUE,
          last_updated |-> clock]
    ELSE LET latest_tracking_row == TheValue(latest)
         IN  [bus_id |-> assignment.bus_id,
              route_name |-> RouteName(assignment),
              current_location |-> Some(<<latest_tracking_row.latitude,
                                          latest_tracking_row.longitude>>),
              next_stop |-> NextStopName(latest_tracking_row),
              eta_minutes |-> latest_tracking_row.eta_minutes,
              crowd_level |-> latest_tracking_row.crowd_level,
              is_on_route |-> latest_tracking_row.is_on_route,
              last_updated |-> latest_tracking_row.timestamp]

\* The BusStatusSummary both queries build for an assignment from the row
\* latest (None when the vehicle has no row: the defaults of lines 264-277).
BusStatusSummary(assignment, latest) ==
    IF latest = None
    THEN [bus_id |-> assignment.bus_id,
          route_name |-> RouteName(assignment),
          current_location |-> None,
          next_stop |-> None,
          eta_minutes |-> None,
          crowd_level |-> "medium",
          is_on_route |-> TRUE,
          last_updated |-> assignment.start_time]
    ELSE LET latest_tracking_row == TheValue(latest)
         IN  [bus_id |-> assignment.bus_id,
              route_name |-> RouteName(assignment),
              current_location |-> Some(<<latest_tracking_row.latitude,
                                          latest_tracking_row.longitude>>),
              next_stop |-> NextStopName(latest_tracking_row),
              eta_minutes |-> latest_tracking_row.eta_minutes,
              crowd_level |-> latest_tracking_row.crowd_level,
              is_on_route |-> latest_tracking_row.is_on_route,
              last_updated |-> latest_tracking_row.timestamp]

\* The rows the latest queries in the loop over active_assignments answer,
\* one for each assignment.
LatestChoices == { f \in [ActiveAssignments -> UNION { latest_tracking(b) : b \in Buses }] :
                     \A a \in ActiveAssignments : f[a] \in latest_tracking(a.bus_id) }

\* get_active_buses_status that passes over the vehicles without a row, as
\* get_nearby_buses does.
get_active_buses_status_reported ==
    { [query |-> "status", args |-> <<>>, status |-> "200",
       body |-> LET reported == SelectSeq(order, LAMBDA a : f[a] # None)
                IN  [k \in DOMAIN reported |-> BusStatusSummary(reported[k], f[reported[k]])],
       rows |-> Len(bus_tracking)] :
      order \in Orderings(ActiveAssignments), f \in LatestChoices }

\* GET /buses/active/status: the responses get_active_buses_status may give.
get_active_buses_status ==
    { [query |-> "status", args |-> <<>>, status |-> "200",
       body |-> [k \in DOMAIN order |-> BusStatusSummary(order[k], f[order[k]])],
       rows |-> Len(bus_tracking)] :
      order \in Orderings(ActiveAssignments), f \in LatestChoices }

\* SelectSeq with a set: the members of seq that are in keep, in order.
RECURSIVE Filter(_, _)
Filter(seq, keep) ==
    IF seq = <<>> THEN <<>>
    ELSE IF Head(seq) \in keep THEN <<Head(seq)>> \o Filter(Tail(seq), keep)
    ELSE Filter(Tail(seq), keep)

\* Query points of the nearby requests; the rows of bus_tracking lie at the
\* same places.
NearPoints == { <<11, 21>>, <<12, 21>> }

\* The outcomes of calculate_distance between the query points, worked out
\* once: the pairs of two points and the outcomes of the call on them.
NearDistances ==
    { <<p, calculate_distance(p[1][1], p[1][2], p[2][1], p[2][2])>> :
        p \in NearPoints \X NearPoints }

\* The outcomes of calculate_distance(lat1, lon1, lat2, lon2), looked up
\* between the query points.
Distance(lat1, lon1, lat2, lon2) ==
    LET p == << <<lat1, lon1>>, <<lat2, lon2>> >>
    IN  IF \E e \in NearDistances : e[1] = p
        THEN (CHOOSE e \in NearDistances : e[1] = p)[2]
        ELSE calculate_distance(lat1, lon1, lat2, lon2)

\* The outcomes the calls of calculate_distance in the loop of
\* get_nearby_buses can have, one for each assignment with a latest row.
Distances(f, latitude, longitude) ==
    LET reported == { a \in DOMAIN f : f[a] # None }
        outcomes(a) ==
            Distance(latitude, longitude, TheValue(f[a]).latitude, TheValue(f[a]).longitude)
    IN  { d \in [reported -> UNION { outcomes(a) : a \in reported }] :
            \A a \in reported : d[a] \in outcomes(a) }

\* get_nearby_buses without the test of the distance.
Within_any(f, d, radius_km) ==
    { { a \in DOMAIN f : f[a] # None } }

\* The assignments whose summary get_nearby_buses appends (lines 301-316),
\* those with a latest row and distance <= radius_km, as the sets the test
\* can leave: an assignment is in when high <= radius_km, out when
\* radius_km < low, and either where the rounding of the distance decides.
Within(f, d, radius_km) ==
    LET may == { a \in DOMAIN f : f[a] # None /\ ~FixLess(Km(radius_km), d[a].low) }
        must == { a \in may : ~FixLess(Km(radius_km), d[a].high) }
    IN  { must \cup some : some \in SUBSET (may \ must) }

\* get_nearby_buses(latitude, longitude, radius_km, db): the responses the
\* handler may give.  A call of calculate_distance that raises ends the
\* handler, and the exception nothing handles is answered 500.
get_nearby_buses(latitude, longitude, radius_km) ==
    UNION {
      UNION {
        IF \E a \in DOMAIN d : d[a].raised
        THEN { [query |-> "nearby", args |-> <<latitude, longitude, radius_km>>,
                status |-> "500", body |-> <<"Internal Server Error">>,
                rows |-> Len(bus_tracking)] }
        ELSE { [query |-> "nearby", args |-> <<latitude, longitude, radius_km>>,
                status |-> "200",
                body |-> LET near == Filter(order, within)
                         IN  [k \in DOMAIN near |-> BusStatusSummary(near[k], f[near[k]])],
                rows |-> Len(bus_tracking)] :
               order \in Orderings(ActiveAssignments), within \in Within(f, d, radius_km) } :
        d \in Distances(f, latitude, longitude) } :
      f \in LatestChoices }

\* GET /buses/nearby: the response of the request.  The router tries its
\* routes in the order of their declaration, and GET /buses/{bus_id} (line 35)
\* stands before GET /buses/nearby (line 285): the request is given to get_bus
\* with bus_id = "nearby", which is not an integer, and is answered 422 naming
\* bus_id.  get_nearby_buses is not called.
nearby_request(latitude, longitude, radius_km) ==
    { [query |-> "nearby", args |-> <<latitude, longitude, radius_km>>,
       status |-> "422", body |-> <<"bus_id">>, rows |-> Len(bus_tracking)] }

\* ---- the query requests -----------------------------------------------------

\* Bodies of record requests from two places 0.01 degrees (1.1 km) apart.
SampleInputs ==
    BusTrackingCreate \cup { [b EXCEPT !.latitude = 12] : b \in BusTrackingCreate }

\* The vehicles that report while the queries are made.
SampleBuses == {1, 4}

\* Radii in kilometres (0.1 <= radius_km <= 10) and windows in hours
\* (1 <= hours <= 168) of the query requests.
RadiusInputs == {1, 10}
HoursInputs == {1, 3, 24}

\* Windows the declaration of hours refuses: below ge=1 and above le=168.
HoursRefused == {0, 169}

\* The rows bus_tracking holds when the queries begin, recorded two hours
\* before: one of vehicle 2, while its assignment was active, at the first
\* query point, and one of vehicle 1 at the second.
HistoricRows ==
    LET b == CHOOSE x \in BusTrackingCreate : TRUE
    IN  << TrackingRow(1, 2, b, -2),
           TrackingRow(2, 1, [b EXCEPT !.latitude = 12], -2) >>

QueryInit ==
    /\ active_connections = {}
    /\ handler = [w \in WebSockets |-> "init"]
    /\ conn = [w \in WebSockets |-> "open"]
    /\ inbox = [w \in WebSockets |-> <<>>]
    /\ wire = [w \in WebSockets |-> <<>>]
    /\ bus_tracking = HistoricRows
    /\ clock = 0
    /\ pub = [r \in PubIds |-> NoPub]
    /\ npub = 0
    /\ last = NoRequest
    /\ reply = NoReply

\* A record request for a reporting vehicle by its assigned driver, from
\* either place.
RecordSample ==
    \E bus_id \in SampleBuses, location_data \in SampleInputs :
        \E current_user \in { u \in DriverUsers :
                                /\ u.driver_profile # None
                                /\ ActiveAssignmentOf(bus_id, TheValue(u.driver_profile)) # {} } :
            update_bus_location(bus_id, location_data, current_user)

\* A query request is answered resp at time utcnow; it changes nothing else.
Answer(resp, utcnow) ==
    /\ reply' = resp
    /\ clock' = utcnow
    /\ UNCHANGED <<active_connections, handler, conn, inbox, wire, bus_tracking, pub, npub, last>>

GetHistory ==
    \E bus_id \in BusIdInputs, hours \in HoursInputs \cup HoursRefused, utcnow \in clock..MaxClock :
        \E resp \in get_bus_tracking_history(bus_id, hours, utcnow) : Answer(resp, utcnow)

GetStatus ==
    \E resp \in get_active_buses_status : Answer(resp, clock)

GetNearby ==
    \E point \in NearPoints, radius_km \in RadiusInputs :
        \E resp \in nearby_request(point[1], point[2], radius_km) : Answer(resp, clock)

QueryNext ==
    \/ RecordSample
    \/ GetHistory
    \/ GetStatus
    \/ GetNearby

\* The record and query requests against a store that holds HistoricRows,
\* with no observer connected: every broadcast finds the registry empty.
QuerySpec == QueryInit /\ [][QueryNext]_vars

\* ---- the fleet: record requests of several vehicles ----------------------------

\* The vehicles whose drivers report, each by the driver of its assignment.
FleetBuses == {1, 4, 5}

\* A record request for a vehicle of the fleet by its assigned driver, with a
\* body that has every attribute the handler reads.
FleetRecord ==
    \E bus_id \in FleetBuses, location_data \in BusTrackingCreate :
        \E current_user \in { u \in DriverUsers :
                                /\ u.driver_profile # None
                                /\ ActiveAssignmentOf(bus_id, TheValue(u.driver_profile)) # {} } :
            update_bus_location(bus_id, location_data, current_user)

FleetNext ==
    \/ FleetRecord
    \/ \E r \in PubIds : SendReturns(r)
    \/ \E r \in PubIds : SendRaises(r)
    \/ \E w \in WebSockets : Connect(w)
    \/ \E w \in WebSockets : ReceiveDisconnect(w)
    \/ \E w \in WebSockets : ReceiveRaises(w)
    \/ \E w \in WebSockets : PeerCloses(w)
    \/ \E w \in WebSockets : PeerResumes(w)

\* The program with the record requests of the fleet: every request gets to
\* its commit, and the requests interleave at the sends of their broadcasts.
FleetSpec == Init /\ [][FleetNext]_vars

\* ---- properties ----------------------------------------------------------------

Range(seq) == { seq[k] : k \in DOMAIN seq }

\* The observers broadcast r has called send_text for and seen end, in order.
SentTo(r) == [k \in DOMAIN pub[r].sends |-> pub[r].sends[k][1]]

\* The frames of broadcast r that the peer of w has received.
FramesOf(r, w) == { k \in DOMAIN inbox[w] : inbox[w][k][1] = r }

Ended(r) == pub[r].pc \notin {"idle", "sending"}

\* C1: a send that fails during a publish does not keep the other observers
\* of the snapshot from their send of the event, before or after the failing
\* one, and once the publish has returned the failed observer is not in the
\* registry.
FailureIsIsolated ==
    \A r \in PubIds :
        Ended(r) =>
            /\ SentTo(r) = pub[r].snapshot
            /\ \A k \in DOMAIN pub[r].sends :
                   LET w == pub[r].sends[k][1]
                   IN  /\ pub[r].sends[k][2] = "sent" =>
                             \E f \in FramesOf(r, w) : inbox[w][f] = <<r, pub[r].data>>
                       /\ pub[r].sends[k][2] = "raised" => w \notin active_connections

\* Two publishes have returned; in one the failing observer came first, in
\* the other last, and the other observer got its frame both times.
FailureIsIsolatedWitness ==
    \E r1, r2 \in PubIds, a, b \in WebSockets :
        /\ pub[r1].pc = "returned" /\ pub[r2].pc = "returned"
        /\ pub[r1].sends = << <<a, "raised">>, <<b, "sent">> >>
        /\ pub[r2].sends = << <<b, "sent">>, <<a, "raised">> >>
        /\ FramesOf(r1, b) # {} /\ FramesOf(r2, b) # {}
        /\ a \notin active_connections

\* C2: every observer receives the events of two publishes in the order in
\* which the publishes were started (publish r is the r-th one started).
PerObserverFifo ==
    \A w \in WebSockets :
        \A j, k \in DOMAIN inbox[w] : j < k => inbox[w][j][1] < inbox[w][k][1]

\* C3: an event is published for a sample at most once and only when the
\* sample's row is committed: every broadcast that was called, and every
\* frame written, belongs to one committed row of its own and carries that
\* row; a request whose commit raised has published nothing.
PublishedOnlyAfterCommit ==
    /\ npub = Len(bus_tracking)
    /\ \A r \in PubIds :
          pub[r].pc # "idle" =>
              /\ pub[r].row \in DOMAIN bus_tracking
              /\ bus_tracking[pub[r].row].id = pub[r].row
              /\ \A q \in PubIds : (q # r /\ pub[q].pc # "idle") => pub[q].row # pub[r].row
              /\ pub[r].data # <<>> =>
                    pub[r].data = json_dumps(LocationUpdateMessage(
                                      bus_tracking[pub[r].row].bus_id, bus_tracking[pub[r].row]))
    /\ \A w \in WebSockets :
          \A k \in DOMAIN (inbox[w] \o wire[w]) :
              LET frame == (inbox[w] \o wire[w])[k]
              IN  /\ frame[1] \in PubIds
                  /\ pub[frame[1]].pc # "idle"
                  /\ frame[2] = pub[frame[1]].data

\* A commit has raised and the event of a committed sample has reached an
\* observer.
PublishedOnlyAfterCommitWitness ==
    /\ last.detail = "db.commit() raised"
    /\ \E w \in WebSockets : inbox[w] # <<>>
    /\ bus_tracking # <<>>

\* C4: a publish calls send_text once for every observer of its snapshot,
\* with no second send after a failure, every frame of it is the one
\* serialized string, no observer gets two frames of it, and when all sends
\* to its N observers succeed exactly N frames are delivered, one each.
OneSendPerObserver ==
    \A r \in PubIds :
        /\ \A w \in WebSockets :
              /\ Cardinality(FramesOf(r, w)) <= 1
              /\ \A k \in FramesOf(r, w) : inbox[w][k][2] = pub[r].data
        /\ pub[r].pc = "sending" =>
              /\ Len(pub[r].sends) = pub[r].i - 1
              /\ \A k \in DOMAIN pub[r].sends : pub[r].sends[k][1] = pub[r].snapshot[k]
        /\ Ended(r) =>
              /\ SentTo(r) = pub[r].snapshot
              /\ \A k \in DOMAIN pub[r].sends :
                    Cardinality(FramesOf(r, pub[r].sends[k][1])) =
                        IF pub[r].sends[k][2] = "sent" THEN 1 ELSE 0
              /\ (\A k \in DOMAIN pub[r].sends : pub[r].sends[k][2] = "sent") =>
                    /\ Cardinality({ w \in WebSockets : FramesOf(r, w) # {} }) =
                           Len(pub[r].snapshot)
                    /\ \A w \in Range(pub[r].snapshot) :
                           \E k \in FramesOf(r, w) : inbox[w][k] = <<r, pub[r].data>>

\* A publish to all NumSockets observers has returned with every send
\* successful.
OneSendPerObserverWitness ==
    \E r \in PubIds :
        /\ pub[r].pc = "returned"
        /\ Len(pub[r].snapshot) = NumSockets
        /\ \A k \in DOMAIN pub[r].sends : pub[r].sends[k][2] = "sent"
        /\ \A w \in WebSockets : \E k \in FramesOf(r, w) : inbox[w][k][2] = pub[r].data


\* The vehicles of the buses table that no active assignment covers.
Unassigned == { b \in Buses : \A a \in BusAssignments : a.bus_id = b => ~a.is_active }

\* C5: a record request for a vehicle with no active assignment is answered
\* 403, leaves the stored samples as they are and publishes nothing.
NotAssignedIsRejected ==
    [][ \A bus_id \in Unassigned, location_data \in LocationInputs, current_user \in DriverUsers :
           update_bus_location(bus_id, location_data, current_user) =>
               /\ last'.status = "403"
               /\ bus_tracking' = bus_tracking
               /\ pub' = pub /\ inbox' = inbox /\ wire' = wire ]_vars

\* The drivers of an active assignment of bus_id.
AssignedDrivers(bus_id) ==
    { u \in DriverUsers : /\ u.driver_profile # None
                          /\ ActiveAssignmentOf(bus_id, TheValue(u.driver_profile)) # {} }

\* C6: a record request for an existing vehicle by the driver of its active
\* assignment appends one row that carries the fields of the request (a
\* BusLocationUpdate) and is then the vehicle's latest row, unless the commit
\* itself fails.
RecordAppendsSample ==
    [][ \A bus_id \in Buses, location_data \in BusLocationUpdate :
        \A current_user \in AssignedDrivers(bus_id) :
           update_bus_location(bus_id, location_data, current_user) =>
               \/ last'.detail = "db.commit() raised"
               \/ /\ Len(bus_tracking') = Len(bus_tracking) + 1
                  /\ SubSeq(bus_tracking', 1, Len(bus_tracking)) = bus_tracking
                  /\ LET row == bus_tracking'[Len(bus_tracking')]
                     IN  /\ row.bus_id = bus_id
                         /\ row.latitude = location_data.latitude
                         /\ row.longitude = location_data.longitude
                         /\ row.speed_kmh = location_data.speed_kmh
                         /\ row.heading = location_data.heading
                         /\ row.accuracy_meters = location_data.accuracy_meters
                         /\ row.current_stop_id = location_data.current_stop_id
                         /\ row.next_stop_id = location_data.next_stop_id
                         /\ row.eta_minutes = location_data.eta_minutes ]_vars

\* C7: every publish that has been called returns, whatever the observers'
\* peers do.
PublishReturns ==
    \A r \in PubIds : [](pub[r].pc = "sending" => <>(pub[r].pc = "returned"))

\* The registry holds the observers whose handler has connected and not
\* disconnected, less those a finished publish has pruned.
Pruned == UNION { Range(pub[r].to_remove) : r \in { q \in PubIds : Ended(q) } }

Connected == { w \in WebSockets : handler[w] \in {"receiving", "receive_raised"} }

\* C8: a publish iterates the snapshot it took: its sends go to the members
\* of the snapshot in the snapshot's order, whatever is registered or
\* unregistered meanwhile; no observer outside the snapshot gets a frame of
\* it; and the membership set stays what connect, disconnect and prune make
\* it.
SnapshotIteration ==
    /\ active_connections = Connected \ Pruned
    /\ \A r \in PubIds :
          pub[r].pc # "idle" =>
              /\ Cardinality(Range(pub[r].snapshot)) = Len(pub[r].snapshot)
              /\ Len(pub[r].sends) <= Len(pub[r].snapshot)
              /\ \A k \in DOMAIN pub[r].sends : pub[r].sends[k][1] = pub[r].snapshot[k]
              /\ pub[r].pc = "sending" =>
                    pub[r].i \in DOMAIN pub[r].snapshot /\ Len(pub[r].sends) = pub[r].i - 1
              /\ Ended(r) => Len(pub[r].sends) = Len(pub[r].snapshot)
              /\ \A w \in WebSockets \ Range(pub[r].snapshot) :
                    /\ FramesOf(r, w) = {}
                    /\ \A k \in DOMAIN wire[w] : wire[w][k][1] # r

\* One publish is in its loop while an observer outside its snapshot is
\* registered, and one publish is in its loop before the send to an observer
\* of its snapshot that is no longer registered.
SnapshotIterationWitness ==
    \E r1, r2 \in PubIds, a, b \in WebSockets :
        /\ pub[r1].pc = "sending"
        /\ b \in active_connections \ Range(pub[r1].snapshot)
        /\ pub[r2].pc = "sending"
        /\ pub[r2].i < Len(pub[r2].snapshot)
        /\ pub[r2].snapshot[Len(pub[r2].snapshot)] = a
        /\ a \notin active_connections

\* C9: disconnect of an observer that is not in the registry changes nothing
\* and raises nothing: neither a handler nor a publish ends in the KeyError of
\* a second removal, an observer removed by its handler, by a prune or by
\* both is absent, and every other connected observer is still a member.
UnregisterIsIdempotent ==
    /\ \A w \in WebSockets : handler[w] # "disconnect_raised"
    /\ \A r \in PubIds : pub[r].pc # "raised"
    /\ \A w \in WebSockets :
          (handler[w] = "returned" \/ w \in Pruned) => w \notin active_connections
    /\ \A w \in Connected \ Pruned : w \in active_connections

\* An observer has been removed by its handler and by the prune of a publish
\* that has returned, and another observer is still registered.
UnregisterIsIdempotentWitness ==
    \E w \in WebSockets :
        /\ handler[w] = "returned"
        /\ w \in Pruned
        /\ active_connections \ {w} # {}

\* The ways websocket_endpoint ends: it returns from the except clause, or
\* an exception of accept, of receive_text or of disconnect leaves it.
Ended_handler == {"returned", "accept_raised", "receive_raised", "disconnect_raised"}

\* C10: whenever the connection of an observer is closed and its handler has
\* ended, the observer is not in the registry: the handler removed it on its
\* way out, and no publish is needed for that.
HandlerUnregistersOnClose ==
    \A w \in WebSockets :
        (conn[w] = "closed" /\ handler[w] \in Ended_handler) => w \notin active_connections

\* `return tracking_data` (line 242): what the record request of broadcast r
\* answers once the awaited broadcast has returned, None while it has not or
\* when the broadcast ended in an exception.
ReturnedSample(r) ==
    IF pub[r].pc = "returned" THEN Some(bus_tracking[pub[r].row]) ELSE None

\* C11: a send that fails is never surfaced to the publisher: a publish that
\* has ended has returned, whatever number of its sends raised, and the record
\* request that awaited it answers the row it committed.
DeliveryFailureNotSurfaced ==
    \A r \in PubIds :
        Ended(r) =>
            /\ pub[r].pc = "returned"
            /\ ReturnedSample(r) # None
            /\ LET tracking_data == TheValue(ReturnedSample(r))
               IN  /\ tracking_data.id = pub[r].row
                   /\ tracking_data.bus_id = pub[r].bus_id
                   /\ tracking_data.latitude = pub[r].location_data.latitude
                   /\ tracking_data.longitude = pub[r].location_data.longitude
                   /\ tracking_data.eta_minutes = pub[r].location_data.eta_minutes

\* A publish to all NumSockets observers has returned after every one of its
\* sends raised.
DeliveryFailureNotSurfacedWitness ==
    \E r \in PubIds :
        /\ pub[r].pc = "returned"
        /\ Len(pub[r].snapshot) = NumSockets
        /\ Len(pub[r].sends) = NumSockets
        /\ \A k \in DOMAIN pub[r].sends : pub[r].sends[k][2] = "raised"
        /\ ReturnedSample(r) # None

\* C12: however record requests that succeed interleave, for one vehicle or
\* for two, the row of every request is once in the history of its own
\* vehicle and in no other vehicle's, no row belongs to no request, and the
\* latest row of every vehicle carries the greatest timestamp of the vehicle.
NoLostUpdate ==
    /\ Len(bus_tracking) = Cardinality({ r \in PubIds : pub[r].pc # "idle" })
    /\ \A r \in PubIds :
          pub[r].pc # "idle" =>
              \A b \in Buses :
                  \A h \in get_bus_tracking_history(b, MaxHours, clock) :
                      Cardinality({ k \in DOMAIN h.body : h.body[k].id = pub[r].row }) =
                          IF b = pub[r].bus_id THEN 1 ELSE 0
    /\ \A b \in Buses :
          \A latest \in latest_tracking(b) :
              IF RowsOf(b) = {} THEN latest = None
              ELSE /\ latest # None
                   /\ TheValue(latest).bus_id = b
                   /\ \A k \in RowsOf(b) : bus_tracking[k].timestamp <= TheValue(latest).timestamp

\* Two record requests, one for each vehicle, are both suspended in their
\* broadcasts, the later one having committed while the earlier one waited.
NoLostUpdateWitness ==
    \E r1, r2 \in PubIds :
        /\ pub[r1].pc = "sending" /\ pub[r2].pc = "sending"
        /\ pub[r1].bus_id # pub[r2].bus_id
        /\ RowsOf(pub[r1].bus_id) # {} /\ RowsOf(pub[r2].bus_id) # {}

\* The response kept in reply was computed from the table as it is now
\* (rows are only ever appended).
Fresh == reply.rows = Len(bus_tracking)

\* The summaries of a status or nearby response for the vehicle b.
SummariesOf(resp, b) == { resp.body[k] : k \in { i \in DOMAIN resp.body : resp.body[i].bus_id = b } }

\* A nearby request has been made of the table as it is now.  The router
\* answers it 422 without calling get_nearby_buses (nearby_request); what is
\* said of the answers of the nearby query is said of NearbyResponses, the
\* responses the handler may give when called with the point and the radius of
\* the request.
AskedNearby == reply.query = "nearby" /\ Fresh
NearbyResponses == get_nearby_buses(reply.args[1], reply.args[2], reply.args[3])

\* C13: the sample the status and nearby queries take as a vehicle's latest
\* is one with the greatest timestamp of the vehicle: after samples with
\* timestamps t1 < t2, the summary shows the time and place of the one with t2.
LatestIsNewest ==
    LET ShowsNewest(resp) ==
            \A b \in Buses :
                \A summary \in SummariesOf(resp, b) :
                    RowsOf(b) # {} =>
                        \E j \in RowsOf(b) :
                            /\ \A i \in RowsOf(b) :
                                  bus_tracking[i].timestamp <= bus_tracking[j].timestamp
                            /\ summary.last_updated = bus_tracking[j].timestamp
                            /\ summary.current_location =
                                   Some(<<bus_tracking[j].latitude, bus_tracking[j].longitude>>)
    IN  /\ (reply.query = "status" /\ Fresh) => ShowsNewest(reply)
        /\ AskedNearby => \A resp \in NearbyResponses : resp.status = "200" /\ ShowsNewest(resp)

\* Two samples of one vehicle were recorded at different times and places,
\* the status query has answered the later one's time and place for the
\* vehicle, and so does get_nearby_buses at that place.
LatestIsNewestWitness ==
    /\ reply.query = "status" /\ Fresh
    /\ \E i, j \in DOMAIN bus_tracking :
          /\ bus_tracking[i].bus_id = bus_tracking[j].bus_id
          /\ bus_tracking[i].timestamp < bus_tracking[j].timestamp
          /\ bus_tracking[i].latitude # bus_tracking[j].latitude
          /\ \E summary \in SummariesOf(reply, bus_tracking[j].bus_id) :
                /\ summary.last_updated = bus_tracking[j].timestamp
                /\ summary.current_location =
                       Some(<<bus_tracking[j].latitude, bus_tracking[j].longitude>>)
          /\ \E resp \in get_nearby_buses(bus_tracking[j].latitude, bus_tracking[j].longitude, 1) :
                \E summary \in SummariesOf(resp, bus_tracking[j].bus_id) :
                    /\ summary.last_updated = bus_tracking[j].timestamp
                    /\ summary.current_location =
                           Some(<<bus_tracking[j].latitude, bus_tracking[j].longitude>>)

\* The window of the assignment a, start_time to end_time, contains time t.
Covers(a, t) ==
    /\ a.start_time <= t
    /\ a.end_time = None \/ t <= TheValue(a.end_time)

\* The vehicles none of whose assignments has a window that contains any
\* time a sample can carry.
OutsideWindow ==
    { b \in Buses : \A a \in BusAssignments, t \in 0..MaxClock : a.bus_id = b => ~Covers(a, t) }

\* C14: a record request for a vehicle none of whose assignments has a window
\* around the time of the sample is answered 403 and stores nothing (for a
\* caller that has a driver profile; the caller without one is C5's case).
RejectedOutsideWindow ==
    [][ \A bus_id \in OutsideWindow, location_data \in SampleInputs \cup LocationInputs :
        \A current_user \in { u \in DriverUsers : u.driver_profile # None } :
           update_bus_location(bus_id, location_data, current_user) =>
               /\ last'.status = "403"
               /\ bus_tracking' = bus_tracking ]_vars

\* C15: registering a registered observer leaves the membership as it is, and
\* whatever connects, disconnects and publishes have happened, the registry
\* holds only connections whose handler registered them, each once: once in
\* every iteration of the set and once in the snapshot of every publish.
RegisteredOnce ==
    /\ \A w \in active_connections : connect(active_connections, w) = active_connections
    /\ active_connections \subseteq Connected
    /\ \A order \in Orderings(active_connections) :
          \A w \in active_connections :
              Cardinality({ k \in DOMAIN order : order[k] = w }) = 1
    /\ \A r \in PubIds :
          \A w \in WebSockets :
              Cardinality({ k \in DOMAIN pub[r].snapshot : pub[r].snapshot[k] = w }) <= 1

\* An observer is registered and has been sent the events of two publishes
\* that returned, while the other observer has been unregistered.
RegisteredOnceWitness ==
    \E w \in active_connections :
        /\ \A r \in PubIds : pub[r].pc = "returned" /\ <<w, "sent">> \in Range(pub[r].sends)
        /\ \E v \in WebSockets \ {w} : handler[v] = "returned" /\ v \notin active_connections

\* The publishes suspended in a send to an observer whose peer is not
\* reading.
Blocked == { r \in PubIds : pub[r].pc = "sending" /\ pub[r].outcome = "pending" }

\* C16: while a publish is suspended in the send to a blocked observer, the
\* registration of another observer and the unregistration of another
\* observer whose peer has closed can run, and they change the membership set
\* at once: the publish holds nothing over the set during a send.
RegistryOpenDuringSend ==
    \A r \in Blocked :
        \A w \in WebSockets \ {pub[r].snapshot[pub[r].i]} :
            /\ (handler[w] = "init" /\ conn[w] = "open") =>
                   ENABLED (Connect(w) /\ active_connections' = active_connections \cup {w})
            /\ (handler[w] = "receiving" /\ conn[w] = "closed") =>
                   ENABLED (ReceiveDisconnect(w) /\ active_connections' = active_connections \ {w})

\* Two publishes are suspended in their first send, to a blocked observer.
\* Another observer registered after the first publish took its snapshot and
\* before the second did, and has unregistered since.
RegistryOpenDuringSendWitness ==
    \E r1, r2 \in Blocked, w \in WebSockets :
        /\ r1 < r2
        /\ pub[r1].i = 1 /\ pub[r2].i = 1
        /\ w \notin Range(pub[r1].snapshot)
        /\ w \in Range(pub[r2].snapshot)
        /\ w # pub[r2].snapshot[1]
        /\ handler[w] = "returned"
        /\ w \notin active_connections

\* C17: the tracking-history query for a vehicle id that no row of the buses
\* table has is answered 200 with an empty list, not an error.
UnknownVehicleIsEmpty ==
    (reply.query = "history" /\ reply.args[1] \notin Buses /\ reply.args[2] \in 1..MaxHours) =>
        (reply.status = "200" /\ reply.body = <<>>)

\* The ids of the samples of vehicle b that carry its greatest timestamp.
Newest(b) ==
    { j \in RowsOf(b) : \A i \in RowsOf(b) : bus_tracking[i].timestamp <= bus_tracking[j].timestamp }

\* C18: when several samples of a vehicle share its greatest timestamp, the
\* one every status query takes as the vehicle's latest is the one inserted
\* last of them, and two status queries that read the same table show the
\* same place for the vehicle.
TieBreakIsStable ==
    /\ [] ( (reply.query = "status" /\ Fresh) =>
               \A b \in Buses :
                   \A summary \in SummariesOf(reply, b) :
                       RowsOf(b) # {} =>
                           LET last_inserted ==
                                   CHOOSE j \in Newest(b) : \A i \in Newest(b) : i <= j
                           IN  /\ summary.last_updated = bus_tracking[last_inserted].timestamp
                               /\ summary.current_location =
                                      Some(<<bus_tracking[last_inserted].latitude,
                                             bus_tracking[last_inserted].longitude>>) )
    /\ [][ ( /\ reply.query = "status"
              /\ reply'.query = "status"
              /\ reply.rows = reply'.rows
              /\ bus_tracking' = bus_tracking ) =>
                \A b \in Buses :
                    \A first \in SummariesOf(reply, b), second \in SummariesOf(reply', b) :
                        first.current_location = second.current_location ]_vars

\* Two samples of a vehicle from different places share the vehicle's
\* greatest timestamp, and the status query has answered the place of the one
\* inserted last.
TieBreakIsStableWitness ==
    /\ reply.query = "status" /\ Fresh
    /\ \E b \in Buses :
          \E i, j \in Newest(b) :
              /\ i < j
              /\ \A k \in Newest(b) : k <= j
              /\ bus_tracking[i].latitude # bus_tracking[j].latitude
              /\ \E summary \in SummariesOf(reply, b) :
                    summary.current_location =
                        Some(<<bus_tracking[j].latitude, bus_tracking[j].longitude>>)

\* C19: a publish that finds the registry empty returns in the step in which
\* it was called: nothing is serialized, no send is made, no frame is written
\* and the registry is still empty.
EmptyPublishIsNoOp ==
    [][ (npub' = npub + 1 /\ active_connections = {}) =>
            /\ pub'[npub'].pc = "returned"
            /\ pub'[npub'].data = <<>>
            /\ pub'[npub'].snapshot = <<>>
            /\ pub'[npub'].sends = <<>>
            /\ pub'[npub'].to_remove = <<>>
            /\ inbox' = inbox /\ wire' = wire /\ conn' = conn
            /\ active_connections' = {} ]_vars

\* A sample was committed and its publish returned on an empty registry,
\* and a later publish found an observer to send to.
EmptyPublishIsNoOpWitness ==
    \E r1, r2 \in PubIds :
        /\ pub[r1].pc = "returned" /\ pub[r1].snapshot = <<>> /\ pub[r1].data = <<>>
        /\ pub[r1].row \in DOMAIN bus_tracking
        /\ pub[r2].snapshot # <<>> /\ pub[r2].data # <<>>

\* C20: every vehicle in an answer of get_nearby_buses is shown at the place
\* of a latest sample of it that lies within radius_km of the query point,
\* and a vehicle all of whose latest samples lie farther is not in the answer.
\* The two places of the model are 1.1 km apart, so that within 1 km of a
\* query point only vehicles at the point itself are answered.
NearbyWithinRadius ==
    AskedNearby =>
        LET latitude == reply.args[1]
            longitude == reply.args[2]
            radius_km == reply.args[3]
            Outcomes(latest) ==
                Distance(latitude, longitude, TheValue(latest).latitude,
                         TheValue(latest).longitude)
            Far(latest) ==
                \/ latest = None
                \/ \A o \in Outcomes(latest) : ~o.raised /\ FixLess(Km(radius_km), o.low)
            Near(latest) ==
                /\ latest # None
                /\ \E o \in Outcomes(latest) : ~o.raised /\ ~FixLess(Km(radius_km), o.low)
        IN  \A resp \in NearbyResponses :
                resp.status = "200" =>
                    /\ \A k \in DOMAIN resp.body :
                          /\ \E latest \in latest_tracking(resp.body[k].bus_id) :
                                /\ Near(latest)
                                /\ resp.body[k].current_location =
                                       Some(<<TheValue(latest).latitude, TheValue(latest).longitude>>)
                          /\ radius_km = 1 =>
                                resp.body[k].current_location = Some(<<latitude, longitude>>)
                    /\ \A b \in Buses :
                          (\A latest \in latest_tracking(b) : Far(latest)) =>
                              SummariesOf(resp, b) = {}

\* For a nearby request with a radius of 1 km, get_nearby_buses answers one
\* vehicle, which is at the query point, and leaves out another whose latest
\* sample is 1.1 km away.
NearbyWithinRadiusWitness ==
    /\ AskedNearby
    /\ reply.args[3] = 1
    /\ \E resp \in NearbyResponses :
          /\ resp.status = "200"
          /\ \E b1, b2 \in Buses :
                /\ SummariesOf(resp, b1) # {}
                /\ SummariesOf(resp, b2) = {}
                /\ \E latest \in latest_tracking(b2) :
                      /\ latest # None
                      /\ <<TheValue(latest).latitude, TheValue(latest).longitude>> #
                             <<reply.args[1], reply.args[2]>>

\* C21: a vehicle with an active assignment and no sample is in no answer of
\* the nearby query, whatever the query point and the radius, and the query is
\* answered 200 with such vehicles in the fleet.
UnreportedIsNotNearby ==
    (reply.query = "nearby" /\ Fresh) =>
        /\ reply.status = "200"
        /\ \A a \in BusAssignments :
              (a.is_active /\ RowsOf(a.bus_id) = {}) => SummariesOf(reply, a.bus_id) = {}

\* The vehicles no assignment of which has is_active set.
NotActive == { b \in Buses : \A a \in BusAssignments : a.bus_id = b => ~a.is_active }

\* C22: get_nearby_buses answers only vehicles of assignments with is_active
\* set: a vehicle that has samples and no such assignment is in no answer,
\* however close to the query point its samples are.
OnlyActiveAreNearby ==
    AskedNearby =>
        \A resp \in NearbyResponses :
            resp.status = "200" =>
                /\ \A k \in DOMAIN resp.body :
                      \E a \in BusAssignments : a.is_active /\ a.bus_id = resp.body[k].bus_id
                /\ \A b \in NotActive : SummariesOf(resp, b) = {}

\* For a nearby request at the very place of the latest sample of a vehicle
\* without an active assignment, get_nearby_buses answers another vehicle and
\* not that one.
OnlyActiveAreNearbyWitness ==
    /\ AskedNearby
    /\ \E resp \in NearbyResponses :
          /\ resp.status = "200" /\ resp.body # <<>>
          /\ \E b \in NotActive :
                /\ RowsOf(b) # {}
                /\ \A latest \in latest_tracking(b) :
                      <<TheValue(latest).latitude, TheValue(latest).longitude>> =
                          <<reply.args[1], reply.args[2]>>
                /\ SummariesOf(resp, b) = {}

\* C23: the summary the status query gives for an active assignment whose
\* vehicle has no sample has crowd_level "medium", is_on_route true,
\* last_updated the assignment's start_time and no current_location.
StatusDefaults ==
    (reply.query = "status" /\ Fresh) =>
        \A a \in BusAssignments :
            (a.is_active /\ RowsOf(a.bus_id) = {}) =>
                /\ SummariesOf(reply, a.bus_id) # {}
                /\ \A summary \in SummariesOf(reply, a.bus_id) :
                      /\ summary.crowd_level = "medium"
                      /\ summary.is_on_route = TRUE
                      /\ summary.last_updated = a.start_time
                      /\ summary.current_location = None

\* A status query made after the start of the assignments has answered the
\* defaults for a vehicle without a sample, next to the place and time of a
\* vehicle that has reported.
StatusDefaultsWitness ==
    /\ reply.query = "status" /\ Fresh
    /\ \E a \in BusAssignments :
          /\ a.is_active /\ RowsOf(a.bus_id) = {}
          /\ a.start_time < clock
          /\ \E summary \in SummariesOf(reply, a.bus_id) :
                summary.last_updated = a.start_time /\ summary.current_location = None
    /\ \E k \in DOMAIN reply.body :
          /\ reply.body[k].current_location # None
          /\ reply.body[k].last_updated >= 0

\* C24: the status query answers one summary for each assignment with
\* is_active set and none for an assignment without, whether the vehicle of
\* the assignment has a sample or not.
OneSummaryPerActiveAssignment ==
    (reply.query = "status" /\ Fresh) =>
        /\ reply.status = "200"
        /\ \A a \in BusAssignments :
              Cardinality({ k \in DOMAIN reply.body : reply.body[k].bus_id = a.bus_id }) =
                  IF a.is_active THEN 1 ELSE 0

\* A status query has answered three summaries, one of a vehicle with a
\* sample and one of a vehicle without, while a vehicle whose assignment is
\* not active has a sample.
OneSummaryPerActiveAssignmentWitness ==
    /\ reply.query = "status" /\ Fresh
    /\ Len(reply.body) = 3
    /\ \E k1, k2 \in DOMAIN reply.body :
          /\ RowsOf(reply.body[k1].bus_id) # {}
          /\ RowsOf(reply.body[k2].bus_id) = {}
    /\ \E b \in NotActive : RowsOf(b) # {}

\* C25: the history query answers the samples of the vehicle whose timestamp
\* is after utcnow - hours, each once, newest first, and no others; it answers
\* for no window longer than MaxHours = 168 hours.
HistoryIsWindowed ==
    (reply.query = "history" /\ Fresh) =>
        LET bus_id == reply.args[1]
            hours == reply.args[2]
        IN  /\ hours > MaxHours => reply.status = "422"
            /\ reply.status = "200" =>
                  /\ hours <= MaxHours
                  /\ { reply.body[k].id : k \in DOMAIN reply.body } =
                         { i \in RowsOf(bus_id) : bus_tracking[i].timestamp > clock - hours }
                  /\ \A k \in DOMAIN reply.body : reply.body[k] = bus_tracking[reply.body[k].id]
                  /\ \A i, j \in DOMAIN reply.body :
                        i < j => /\ reply.body[i].id # reply.body[j].id
                                 /\ reply.body[i].timestamp >= reply.body[j].timestamp

\* A history query has answered two samples of a vehicle, the later one
\* first, and left out a sample of the vehicle stamped at the start of its
\* window, while another vehicle has a sample too.
HistoryIsWindowedWitness ==
    /\ reply.query = "history" /\ Fresh /\ reply.status = "200"
    /\ Len(reply.body) = 2
    /\ reply.body[1].timestamp > reply.body[2].timestamp
    /\ \E i \in RowsOf(reply.args[1]) : bus_tracking[i].timestamp = clock - reply.args[2]
    /\ \E i \in DOMAIN bus_tracking : bus_tracking[i].bus_id # reply.args[1]

\* C26: a record request for a vehicle that has an active assignment, from a
\* caller who is not the driver of an active assignment of it, is answered
\* 403, stores nothing and publishes nothing.
WrongDriverIsForbidden ==
    [][ \A bus_id \in Buses \ Unassigned, location_data \in LocationInputs :
        \A current_user \in DriverUsers \ AssignedDrivers(bus_id) :
           update_bus_location(bus_id, location_data, current_user) =>
               /\ last'.status = "403"
               /\ bus_tracking' = bus_tracking
               /\ npub' = npub /\ pub' = pub /\ inbox' = inbox /\ wire' = wire ]_vars

\* C27: the event of every publish that serialized one is
\* {"type": "location_update", "data": {...}} with the six keys bus_id,
\* latitude, longitude, eta_minutes, crowd_level and timestamp and no other,
\* each with the value of the row the request stored, bus_id being the
\* vehicle of the row.
EventCarriesSample ==
    \A r \in PubIds :
        pub[r].data # <<>> =>
            LET row == bus_tracking[pub[r].row]
                data == pub[r].data[2][2]
            IN  /\ pub[r].data[1] = <<"type", <<"string", "location_update">>>>
                /\ pub[r].data[2][1] = "data"
                /\ [k \in DOMAIN data |-> data[k][1]] =
                       <<"bus_id", "latitude", "longitude", "eta_minutes", "crowd_level",
                         "timestamp">>
                /\ data[1][2] = <<"number", row.bus_id>>
                /\ data[2][2] = <<"number", row.latitude>>
                /\ data[3][2] = <<"number", row.longitude>>
                /\ data[4][2] = IF row.eta_minutes = None THEN <<"null">>
                                ELSE <<"number", TheValue(row.eta_minutes)>>
                /\ data[5][2] = <<"string", row.crowd_level>>
                /\ data[6][2] = <<"string", <<"str(datetime)", row.timestamp>>>>

\* C28: a publish marks the observer of a send that raised and no other, it
\* leaves the membership of the registry as it is from its call up to the
\* end of its last send, and in the step that ends its last send it removes
\* the observers it has marked.
TwoPhasePublish ==
    [][ /\ npub' # npub => active_connections' = active_connections
        /\ \A r \in PubIds :
              (pub[r].pc = "sending" /\ Len(pub'[r].sends) > Len(pub[r].sends)) =>
                  LET connection == pub[r].snapshot[pub[r].i]
                      outcome == pub'[r].sends[Len(pub'[r].sends)][2]
                  IN  /\ pub'[r].to_remove = IF outcome = "raised"
                                             THEN Append(pub[r].to_remove, connection)
                                             ELSE pub[r].to_remove
                      /\ IF pub[r].i < Len(pub[r].snapshot)
                         THEN active_connections' = active_connections
                         ELSE active_connections' =
                                  active_connections \ Range(pub'[r].to_remove) ]_vars

\* A publish is suspended in its second send; it has marked the observer of
\* its first send, which raised, and that observer is still registered.
TwoPhasePublishWitness ==
    \E r \in PubIds :
        /\ pub[r].pc = "sending"
        /\ pub[r].i = 2
        /\ pub[r].to_remove = <<pub[r].snapshot[1]>>
        /\ pub[r].snapshot[1] \in active_connections

\* The observers that were registered and have been removed from the
\* registry: a handler gets past "init" by registering its connection, unless
\* its accept raised.
Removed ==
    { w \in WebSockets : handler[w] \notin {"init", "accept_raised"} /\ w \notin active_connections }

\* C29: an observer that has been removed from the registry is never in the
\* registry again, and it is not in the snapshot of a publish that is called
\* after the removal, so that no such publish sends to it.
RemovedStaysOut ==
    [][ \A w \in Removed :
            /\ w \notin active_connections'
            /\ npub' # npub => w \notin Range(pub'[npub'].snapshot) ]_vars

\* An observer was in the snapshot of the first publish, which pruned it
\* after its send raised; its handler has returned since, and the second
\* publish has sent to the other observer only.
RemovedStaysOutWitness ==
    \E w \in Removed, r1, r2 \in PubIds :
        /\ r1 < r2
        /\ w \in Range(pub[r1].to_remove) /\ pub[r1].pc = "returned"
        /\ handler[w] = "returned"
        /\ pub[r2].snapshot # <<>>
        /\ w \notin Range(pub[r2].snapshot)

\* The observers whose send raised in the publish with state p.
FailedIn(p) == { w \in WebSockets : <<w, "raised">> \in Range(p.sends) }

\* C30 as stated: when a publish returns, every observer whose handler is
\* still running and whose send did not fail in that publish (its send
\* succeeded, or it registered while the publish was in progress) is
\* registered, unless its own handler removed it.
OnlyOwnHandlerRemovesOthers ==
    [][ \A r \in PubIds :
          (pub[r].pc = "sending" /\ pub'[r].pc # "sending") =>
              \A w \in WebSockets \ FailedIn(pub'[r]) :
                  ( /\ handler[w] \in {"receiving", "receive_raised"}
                    /\ \/ <<w, "sent">> \in Range(pub'[r].sends)
                       \/ w \notin Range(pub[r].snapshot) ) =>
                      w \in active_connections' ]_vars

\* C30, amended: the step in which a publish returns removes from the
\* registry only observers whose send raised in that publish, and an
\* observer whose send succeeded in it, or that registered while it was in
\* progress, is registered when it returns unless its own handler removed it
\* or another publish, whose send to it raised, pruned it.
RemovesOnlyOwnFailures ==
    [][ \A r \in PubIds :
          (pub[r].pc = "sending" /\ pub'[r].pc # "sending") =>
              /\ active_connections \ active_connections' \subseteq FailedIn(pub'[r])
              /\ \A w \in WebSockets \ FailedIn(pub'[r]) :
                    ( /\ handler[w] \in {"receiving", "receive_raised"}
                      /\ \/ <<w, "sent">> \in Range(pub'[r].sends)
                         \/ w \notin Range(pub[r].snapshot) ) =>
                        \/ w \in active_connections'
                        \/ \E r2 \in PubIds \ {r} :
                              Ended(r2) /\ w \in FailedIn(pub[r2]) ]_vars

\* A publish has returned after a send that succeeded and a send that
\* raised: the observer of the first is registered, the observer of the
\* second is not, and its handler has not run since.
RemovesOnlyOwnFailuresWitness ==
    \E r \in PubIds, w1, w2 \in WebSockets :
        /\ pub[r].pc = "returned"
        /\ <<w1, "sent">> \in Range(pub[r].sends)
        /\ <<w2, "raised">> \in Range(pub[r].sends)
        /\ w1 \in active_connections
        /\ w2 \notin active_connections
        /\ handler[w2] = "receiving"

====
